---- MODULE Spec2Model ----
(***************************************************************************)
(* Model of the crawler's orchestration code: QueueManager, LoadScaler,    *)
(* Scraper.fetch_dynamic_content's link filter, process_url,               *)
(* process_tasks, process_domain and main.                                 *)
(*                                                                         *)
(* The program runs on one asyncio event loop, so code between two         *)
(* suspension points runs without interleaving.  The dispatch loop of      *)
(* process_tasks is written as small steps (lpc = "dispatch", "collect");  *)
(* while one unit is in such a step nothing else runs (Busy).              *)
(***************************************************************************)
EXTENDS Integers, Sequences, FiniteSets, TLC

\* ------------------------------------------------------------- bounds
\* Largest max_limit (MAXIMUM_CONCURRENCY_LIMIT) the crawl configurations use.
MaxLimit == 3
\* The domain timeout (DOMAIN_SCRAPING_TIMEOUT hours) in clock ticks.
DomainTimeoutTicks == 1
\* Largest max_limit of the LoadScaler-only specification.
ScalerMaxLimit == 8
\* Cap on fast_completions in the LoadScaler-only specification.
MaxStreak == 5

\* -------------------------------------------------- program constants
MIN_CONCURRENCY == 1
ADAPTIVE_STEP == 2
ADAPTIVE_THRESHOLD == 3
DOMAIN_CONCURRENCY_LIMIT == 3

Max(a, b) == IF a >= b THEN a ELSE b
Min(a, b) == IF a <= b THEN a ELSE b

\* ---------------------------------------------------------------- URLs
\* A URL is a record: host (the netloc, a sequence of dot-separated labels),
\* path and frag (the fragment, "" when there is none).
Url(h, p, f) == [host |-> h, path |-> p, frag |-> f]

\* f = furl(link); f.fragment = ''; link = f.url
StripFragment(l) == [l EXCEPT !.frag = ""]

\* urlparse(url).netloc.replace('www.', ''): every "www." is removed, that is
\* every label "www" that is followed by another label.
NetlocDomain(h) ==
    LET keep == {i \in 1..Len(h) : ~(h[i] = "www" /\ i < Len(h))}
        F[i \in 0..Len(h)] ==
            IF i = 0 THEN <<>>
            ELSE IF i \in keep THEN Append(F[i-1], h[i]) ELSE F[i-1]
    IN F[Len(h)]

Shop == <<"shop", "example">>
WwwShop == <<"www", "shop", "example">>
Other == <<"other", "example">>

\* The seed of the one-domain crawl and the links its pages may carry.
SeedA == Url(Shop, "/a", "")
CrawlPool == { Url(Shop, "/a", "top"), Url(WwwShop, "/p/1", ""), Url(Other, "/x", "") }

\* The seeds of the scheduler run: more seeds than admission slots.
SchedSeeds == << Url(<<"d1", "example">>, "/", ""), Url(<<"d2", "example">>, "/", ""),
                 Url(<<"d3", "example">>, "/", "") >>
\* The values of DOMAIN_CONCURRENCY_LIMIT the scheduler run is configured with.
SchedLimits == {1, 2}

\* The links of the pages of the output run: two product pages and a page
\* whose path only resembles a product pattern.
OutPool == { Url(WwwShop, "/p/1", ""), Url(Shop, "/products/2", "old"), Url(Shop, "/dpx/3", "") }

\* Every URL that can be stored in a queue.
AllUrls == {SeedA} \cup {StripFragment(l) : l \in CrawlPool \cup OutPool}
           \cup {SchedSeeds[i] : i \in 1..Len(SchedSeeds)}

\* All orders in which a set can be iterated (list(set), "for x in set").
Orders(S) == {s \in [1..Cardinality(S) -> S] : \A i, j \in 1..Cardinality(S) : i # j => s[i] # s[j]}

\* ---------------------------------------------------------- LoadScaler
\* os.cpu_count(): 0 stands for None.
CpuCounts == {0, 2, 8, 12, 16, 64}

\* _initialize_concurrency without the floor max(MIN_CONCURRENCY, ...).
initialize_concurrency_nofloor(auto_scale, ml, cpu) ==
    IF auto_scale
    THEN Min(ml, IF cpu # 0 THEN cpu \div 4 ELSE 2)
    ELSE ml

initialize_concurrency(auto_scale, ml, cpu) ==
    IF auto_scale
    THEN Max(MIN_CONCURRENCY, Min(ml, IF cpu # 0 THEN cpu \div 4 ELSE 2))
    ELSE Max(MIN_CONCURRENCY, ml)

\* adjust_concurrency with the raise not capped at max_limit.
adjust_concurrency_uncapped(s, ml, success) ==
    IF success
    THEN LET fc == s.fast_completions + 1 IN
         IF fc >= ADAPTIVE_THRESHOLD /\ s.concurrency < ml
         THEN [concurrency |-> s.concurrency + ADAPTIVE_STEP, fast_completions |-> 0]
         ELSE [concurrency |-> s.concurrency, fast_completions |-> fc]
    ELSE IF s.concurrency > MIN_CONCURRENCY
         THEN [concurrency |-> Max(s.concurrency - ADAPTIVE_STEP, MIN_CONCURRENCY), fast_completions |-> 0]
         ELSE [concurrency |-> s.concurrency, fast_completions |-> 0]

\* adjust_concurrency with the raise one success late (> for >=).
adjust_concurrency_late(s, ml, success) ==
    IF success
    THEN LET fc == s.fast_completions + 1 IN
         IF fc > ADAPTIVE_THRESHOLD /\ s.concurrency < ml
         THEN [concurrency |-> Min(s.concurrency + ADAPTIVE_STEP, ml), fast_completions |-> 0]
         ELSE [concurrency |-> s.concurrency, fast_completions |-> fc]
    ELSE IF s.concurrency > MIN_CONCURRENCY
         THEN [concurrency |-> Max(s.concurrency - ADAPTIVE_STEP, MIN_CONCURRENCY), fast_completions |-> 0]
         ELSE [concurrency |-> s.concurrency, fast_completions |-> 0]

\* adjust_concurrency with the decrease not floored at MIN_CONCURRENCY.
adjust_concurrency_unfloored(s, ml, success) ==
    IF success
    THEN LET fc == s.fast_completions + 1 IN
         IF fc >= ADAPTIVE_THRESHOLD /\ s.concurrency < ml
         THEN [concurrency |-> Min(s.concurrency + ADAPTIVE_STEP, ml), fast_completions |-> 0]
         ELSE [concurrency |-> s.concurrency, fast_completions |-> fc]
    ELSE IF s.concurrency > MIN_CONCURRENCY
         THEN [concurrency |-> s.concurrency - ADAPTIVE_STEP, fast_completions |-> 0]
         ELSE [concurrency |-> s.concurrency, fast_completions |-> 0]

\* adjust_concurrency on a scaler state s = [concurrency, fast_completions].
adjust_concurrency(s, ml, success) ==
    IF success
    THEN LET fc == s.fast_completions + 1 IN
         IF fc >= ADAPTIVE_THRESHOLD /\ s.concurrency < ml
         THEN [concurrency |-> Min(s.concurrency + ADAPTIVE_STEP, ml), fast_completions |-> 0]
         ELSE [concurrency |-> s.concurrency, fast_completions |-> fc]
    ELSE IF s.concurrency > MIN_CONCURRENCY
         THEN [concurrency |-> Max(s.concurrency - ADAPTIVE_STEP, MIN_CONCURRENCY), fast_completions |-> 0]
         ELSE [concurrency |-> s.concurrency, fast_completions |-> 0]

\* --------------------------------------------------------------- state
VARIABLES
    start_urls,      \* main: the seed list, one crawl unit per entry
    pool,            \* the links the pages of the crawled sites may carry
    max_limit,       \* LoadScaler.max_limit (MAXIMUM_CONCURRENCY_LIMIT)
    scaler,          \* per unit: LoadScaler [concurrency, fast_completions]
    queue,           \* per unit: QueueManager.queue
    visited_urls,    \* per unit: Scraper.visited_urls
    dpc,             \* per unit: where process_domain is
    lpc,             \* per unit: where process_tasks is
    tasks,           \* per unit: process_tasks' set `tasks` (slots)
    done,            \* per unit: the batch `done` still to be handled
    url,             \* per unit: process_tasks' loop variable `url`
    failed_urls,     \* per unit: process_tasks' set `failed_urls`
    task,            \* per unit and slot: the fetch task (process_url under wait_for)
    open_pages,      \* the browser's pages on which close() was not called
    domain_limit,    \* DOMAIN_CONCURRENCY_LIMIT of the run's configuration
    sem,             \* domain_concurrency_semaphore's value
    clock,           \* ticks since the domain tasks were created
    mainpc,          \* where main is
    \* history, read only by the properties
    puts,            \* per unit: how often each URL was put into the queue in this pass
    fetches,         \* per unit: how often each URL was dispatched in the crawl
    bad,             \* per unit and pass: URLs a task of which ended in failure
    retried,         \* per unit: URLs dispatched in the retry pass
    held,            \* per unit: ticks spent holding an admission slot
    adjusts,         \* per unit: the adjust_concurrency calls its dispatch loop made
    seed_file,       \* the input file of seed URLs, as read by load_start_urls
    calls,           \* LoadScaler alone: the last calls, each with the state it found
    origin,          \* link filter alone: the pairs <<page, link of it that was queued>>
    output           \* per unit: the records appended to its output file, in order

vars == << start_urls, pool, max_limit, scaler, queue, visited_urls, dpc, lpc, tasks,
           done, url, failed_urls, task, open_pages, domain_limit, sem, clock, mainpc,
           puts, fetches, bad, retried, held, adjusts, seed_file, calls, origin, output >>

Units == 1..Len(start_urls)
Slots == 1..(MaxLimit + 1)
NoUrl == Url(<<>>, "", "")
NoTask == [st |-> "free", url |-> NoUrl, new_urls |-> <<>>, success |-> FALSE,
           exc |-> "none", opened |-> 0, closes |-> 0]

Pass(u) == IF dpc[u] = "pass2" THEN 2 ELSE 1
Running(u) == dpc[u] \in {"pass1", "pass2"}
Finished(u) == dpc[u] \in {"done", "timedout", "error"}

\* The event loop is inside a dispatch loop's run between two suspension points.
Busy == \E u \in Units : lpc[u] \in {"loop", "dispatch", "collect"}

\* A fetch task that has not ended (in the loop's set or orphaned).
Live(u, s) == task[u][s].st \in {"new", "fetching", "closing"}

FreeSlot(u) == CHOOSE s \in Slots : task[u][s].st = "free" /\ \A r \in Slots : task[u][r].st = "free" => s <= r

\* add_urls that puts the batch in front of the queue.
add_urls_prepend(q, urls) == urls \o q

\* QueueManager.add_urls: every URL of the batch is put, in order.
add_urls(q, urls) == q \o urls

\* The puts counter after a batch.
CountPuts(c, urls) == [x \in AllUrls |-> c[x] + Cardinality({i \in 1..Len(urls) : urls[i] = x})]

\* Scraper.fetch_dynamic_content, the filter of the extracted links of page
\* `page_url`: fragment stripped, same domain, not seen before.
NewUrls(page_url, links, seen) ==
    { StripFragment(l) : l \in { k \in links :
          /\ NetlocDomain(page_url.host) = NetlocDomain(StripFragment(k).host)
          /\ StripFragment(k) \notin seen } }

\* ---------------------------------------------------- the output file
\* PRODUCT_PATTERNS, each as the text it is: "/" and the word between.
PRODUCT_PATTERNS == { <<"/", "p", "/">>, <<"/", "products", "/">>,
                      <<"/", "product", "/">>, <<"/", "dp", "/">> }

\* The text of a path, cut at every "/".
PathText(p) ==
    CASE p = "/"           -> <<"/">>
      [] p = "/a"          -> <<"/", "a">>
      [] p = "/b"          -> <<"/", "b">>
      [] p = "/x"          -> <<"/", "x">>
      [] p = "/y"          -> <<"/", "y">>
      [] p = "/z"          -> <<"/", "z">>
      [] p = "/p/1"        -> <<"/", "p", "/", "1">>
      [] p = "/products/2" -> <<"/", "products", "/", "2">>
      [] p = "/dpx/3"      -> <<"/", "dpx", "/", "3">>
      [] OTHER             -> <<>>

\* The text of a link after "https:", cut at every "/": "//", the host (one
\* word: a dotted name, or the label of a one-label host) and the path.
LinkText(l) ==
    <<"/", "/", IF Len(l.host) = 1 THEN l.host[1] ELSE "dotted.name">> \o PathText(l.path)

\* pattern in link
Contains(text, pat) ==
    \E i \in 1..(Len(text) - Len(pat) + 1) : SubSeq(text, i, i + Len(pat) - 1) = pat

\* any(pattern in link for pattern in PRODUCT_PATTERNS)
IsProduct(l) == \E pat \in PRODUCT_PATTERNS : Contains(LinkText(l), pat)

\* product_links: the links of new_urls that match a product pattern.
ProductLinks(new) == {l \in new : IsProduct(l)}

\* A fetch that writes a record whether or not it found a product link.
WriteRecord_always(out, page_url, product_links) ==
    Append(out, [domain |-> NetlocDomain(page_url.host), parent_link |-> page_url,
                 count |-> Cardinality(product_links), product_links |-> product_links])

\* if product_links: one JSON line is appended to the output file.
WriteRecord(out, page_url, product_links) ==
    IF product_links # {}
    THEN Append(out, [domain |-> NetlocDomain(page_url.host), parent_link |-> page_url,
                      count |-> Cardinality(product_links), product_links |-> product_links])
    ELSE out

\* ------------------------------------------------------- the seed file
\* A line of the file is a sequence of tokens: a URL, or Ws for one whitespace
\* character (the newline included).  The file is [exists, lines].
Ws == Url(<<>>, " ", "")

\* line.strip()
Strip(line) ==
    LET idx == {i \in 1..Len(line) : line[i] # Ws}
        lo == CHOOSE i \in idx : \A j \in idx : i <= j
        hi == CHOOSE i \in idx : \A j \in idx : i >= j
    IN IF idx = {} THEN <<>> ELSE SubSeq(line, lo, hi)

\* The string a stripped line is: its URL, or the empty string.
LineUrl(stripped) == IF stripped = <<>> THEN NoUrl ELSE stripped[1]

NonBlank(line) == Strip(line) # <<>>

\* load_start_urls without the "if line.strip()" filter.
load_start_urls_unfiltered(file) ==
    IF ~file.exists THEN <<>>
    ELSE [i \in 1..Len(file.lines) |-> LineUrl(Strip(file.lines[i]))]

\* load_start_urls: [] when the file is missing, else the stripped non-blank lines.
load_start_urls(file) ==
    IF ~file.exists THEN <<>>
    ELSE LET kept == SelectSeq(file.lines, NonBlank)
         IN [i \in 1..Len(kept) |-> LineUrl(Strip(kept[i]))]

\* The file that lists `seeds`, one per line.
FileOf(seeds) == [exists |-> TRUE, lines |-> [i \in 1..Len(seeds) |-> <<seeds[i], Ws>>]]

\* ---------------------------------------------------------------- Init
\* process_domain up to "async with domain_semaphore", for every seed: the
\* state of the units main creates for `seeds`.
NewUnits(seeds, ml, auto_scale, cpu) ==
    [ scaler |-> [u \in 1..Len(seeds) |->
                    [concurrency |-> initialize_concurrency(auto_scale, ml, cpu), fast_completions |-> 0]],
      queue |-> [u \in 1..Len(seeds) |-> add_urls(<<>>, <<seeds[u]>>)],
      visited_urls |-> [u \in 1..Len(seeds) |-> {}],
      dpc |-> [u \in 1..Len(seeds) |-> "wait_sem"],
      lpc |-> [u \in 1..Len(seeds) |-> "idle"],
      tasks |-> [u \in 1..Len(seeds) |-> {}],
      url |-> [u \in 1..Len(seeds) |-> NoUrl],
      task |-> [u \in 1..Len(seeds) |-> [s \in Slots |-> NoTask]],
      puts |-> [u \in 1..Len(seeds) |-> [x \in AllUrls |-> IF x = seeds[u] THEN 1 ELSE 0]],
      fetches |-> [u \in 1..Len(seeds) |-> [x \in AllUrls |-> 0]],
      bad |-> [u \in 1..Len(seeds) |-> <<{}, {}>>],
      count |-> [u \in 1..Len(seeds) |-> 0],
      output |-> [u \in 1..Len(seeds) |-> <<>>] ]

InitUnits(seeds, pl, ml, auto_scale, cpu, dl) ==
    LET new == NewUnits(seeds, ml, auto_scale, cpu) IN
    /\ start_urls = seeds
    /\ pool = pl
    /\ max_limit = ml
    /\ scaler = new.scaler
    /\ queue = new.queue
    /\ visited_urls = new.visited_urls
    /\ dpc = new.dpc
    /\ lpc = new.lpc
    /\ tasks = new.tasks
    /\ done = new.tasks
    /\ url = new.url
    /\ failed_urls = new.tasks
    /\ task = new.task
    /\ open_pages = {}
    /\ domain_limit = dl
    /\ sem = dl
    /\ clock = 0
    /\ puts = new.puts
    /\ fetches = new.fetches
    /\ bad = new.bad
    /\ retried = new.tasks
    /\ held = new.count
    /\ adjusts = new.count
    /\ output = new.output
    /\ calls = <<>>
    /\ origin = {}

\* main has read the seeds and created the domain tasks.
InitWith(seeds, pl, ml, auto_scale, cpu, dl) ==
    /\ InitUnits(seeds, pl, ml, auto_scale, cpu, dl)
    /\ seed_file = FileOf(seeds)
    /\ mainpc = "gather"

\* One domain, several links per page, every configuration of the scaler.
Init ==
    \E auto_scale \in BOOLEAN, cpu \in CpuCounts :
        InitWith(<<SeedA>>, CrawlPool, MaxLimit, auto_scale, cpu, DOMAIN_CONCURRENCY_LIMIT)

\* More domains than admission slots, pages without links.
InitSched ==
    \E dl \in SchedLimits : InitWith(SchedSeeds, {}, 1, FALSE, 0, dl)

\* Two seed lines of one domain: main creates one process_domain per line.
DupSeeds == << SeedA, Url(WwwShop, "/p/1", "") >>

InitDup ==
    InitWith(DupSeeds, {Url(Shop, "/a", "top")}, 1, FALSE, 0, DOMAIN_CONCURRENCY_LIMIT)

\* The links of the pages of the link-filter run: same host, "www." in front
\* of the host, "www." inside the host, other hosts.
FilterPool == CrawlPool \cup { Url(Shop, "/b", ""), Url(<<"shop", "www", "example">>, "/y", ""),
                               Url(<<"www", "other", "example">>, "/z", "") }

\* A Scraper and its queue alone.
InitFilter ==
    InitWith(<<SeedA>>, FilterPool, 1, FALSE, 0, DOMAIN_CONCURRENCY_LIMIT)

\* Two domains for one admission slot, pages that may link to the first seed.
LiveSeeds == << Url(<<"d1", "example">>, "/", ""), Url(<<"d2", "example">>, "/", "") >>

InitLive == InitWith(LiveSeeds, {Url(<<"d1", "example">>, "/", "top")}, 1, FALSE, 0, 1)

\* The seed files of the start of main: missing, empty, blank lines only, and
\* one URL among blank lines and whitespace.
SeedFiles ==
    { [exists |-> FALSE, lines |-> <<>>],
      [exists |-> TRUE, lines |-> <<>>],
      [exists |-> TRUE, lines |-> << <<Ws>> >>],
      [exists |-> TRUE, lines |-> << <<Ws, Ws>>, <<Ws>> >>],
      [exists |-> TRUE, lines |-> << <<Ws>>, <<Ws, LiveSeeds[1], Ws>>, <<Ws>> >>],
      FileOf(<<LiveSeeds[1]>>) }

\* main before load_start_urls: no unit exists.
InitSeeds ==
    \E file \in SeedFiles :
        /\ InitUnits(<<>>, {}, 1, FALSE, 0, DOMAIN_CONCURRENCY_LIMIT)
        /\ seed_file = file
        /\ mainpc = "start"

\* One domain whose pages link to product pages, one task at a time.
InitOut == InitWith(<<SeedA>>, OutPool, 1, FALSE, 0, DOMAIN_CONCURRENCY_LIMIT)

\* A LoadScaler alone.
InitScaler ==
    \E ml \in MIN_CONCURRENCY..ScalerMaxLimit, auto_scale \in BOOLEAN, cpu \in CpuCounts :
        InitWith(<<SeedA>>, {}, ml, auto_scale, cpu, DOMAIN_CONCURRENCY_LIMIT)

\* --------------------------------------------------- process_tasks loop
\* The semaphore test off by one.
SemFree_offbyone(v) == v >= 0

\* asyncio.Semaphore: a slot is free.
SemFree(v) == v > 0

\* "async with domain_semaphore" that gives no slot back at its exit.
Release_none(v) == v

\* "async with domain_semaphore" at its exit, by return, exception or
\* cancellation: Semaphore.release().
Release(v) == v + 1

\* process_domain reaches "async with domain_semaphore" and is admitted.  The
\* semaphore wakes its waiters in the order in which they arrived (seed order).
Acquire(u) ==
    /\ ~Busy /\ mainpc = "gather"
    /\ dpc[u] = "wait_sem"
    /\ SemFree(sem)
    /\ \A v \in Units : dpc[v] = "wait_sem" => u <= v
    /\ sem' = sem - 1
    /\ dpc' = [dpc EXCEPT ![u] = "pass1"]
    /\ lpc' = [lpc EXCEPT ![u] = "loop"]
    /\ UNCHANGED << start_urls, pool, max_limit, domain_limit, output, seed_file, calls, origin, adjusts, scaler, queue, visited_urls, tasks, done, url,
                    failed_urls, task, open_pages, clock, mainpc, puts, fetches, bad, retried, held >>

\* while not queue.is_empty() or tasks:
LoopEnter(u) ==
    /\ lpc[u] = "loop"
    /\ queue[u] # <<>> \/ tasks[u] # {}
    /\ lpc' = [lpc EXCEPT ![u] = "dispatch"]
    /\ UNCHANGED << start_urls, pool, max_limit, domain_limit, output, seed_file, calls, origin, adjusts, scaler, queue, visited_urls, dpc, tasks, done, url,
                    failed_urls, task, open_pages, sem, clock, mainpc, puts, fetches, bad, retried, held >>

\* The dispatch test with <= for <.
CanDispatch_le(u) == Cardinality(tasks[u]) <= scaler[u].concurrency /\ queue[u] # <<>>

\* while len(tasks) < load_scaler.get_concurrency() and not queue.is_empty():
CanDispatch(u) == Cardinality(tasks[u]) < scaler[u].concurrency /\ queue[u] # <<>>

\* url = await queue.get(); task = create_task(wait_for(process_url(url, ...))); tasks.add(task)
Dispatch(u) ==
    /\ lpc[u] = "dispatch"
    /\ CanDispatch(u)
    /\ LET x == Head(queue[u])
           s == FreeSlot(u)
       IN /\ queue' = [queue EXCEPT ![u] = Tail(queue[u])]
          /\ url' = [url EXCEPT ![u] = x]
          /\ task' = [task EXCEPT ![u][s] = [NoTask EXCEPT !.st = "new", !.url = x]]
          /\ tasks' = [tasks EXCEPT ![u] = tasks[u] \cup {s}]
          /\ fetches' = [fetches EXCEPT ![u][x] = fetches[u][x] + 1]
          /\ retried' = [retried EXCEPT ![u] = IF Pass(u) = 2 THEN retried[u] \cup {x} ELSE retried[u]]
    /\ UNCHANGED << start_urls, pool, max_limit, domain_limit, output, seed_file, calls, origin, adjusts, scaler, visited_urls, dpc, lpc, done,
                    failed_urls, open_pages, sem, clock, mainpc, puts, bad, held >>

\* done, tasks = await asyncio.wait(tasks, return_when=FIRST_COMPLETED): the loop
\* suspends.  asyncio.wait raises ValueError on an empty set, which would leave
\* process_tasks and process_domain (releasing the slot).
DispatchEnd(u) ==
    /\ lpc[u] = "dispatch"
    /\ ~CanDispatch(u)
    /\ IF tasks[u] # {}
       THEN /\ lpc' = [lpc EXCEPT ![u] = "wait"]
            /\ UNCHANGED << dpc, sem >>
       ELSE /\ lpc' = [lpc EXCEPT ![u] = "idle"]
            /\ dpc' = [dpc EXCEPT ![u] = "error"]
            /\ sem' = Release(sem)
    /\ UNCHANGED << start_urls, pool, max_limit, domain_limit, output, seed_file, calls, origin, adjusts, scaler, queue, visited_urls, tasks, done, url,
                    failed_urls, task, open_pages, clock, mainpc, puts, fetches, bad, retried, held >>

\* asyncio.wait returns: done = the tasks that have ended, tasks = the pending ones.
Wake(u) ==
    /\ ~Busy /\ mainpc = "gather"
    /\ lpc[u] = "wait"
    /\ LET d == {s \in tasks[u] : task[u][s].st = "done"}
       IN /\ d # {}
          /\ done' = [done EXCEPT ![u] = d]
          /\ tasks' = [tasks EXCEPT ![u] = tasks[u] \ d]
    /\ lpc' = [lpc EXCEPT ![u] = "collect"]
    /\ UNCHANGED << start_urls, pool, max_limit, domain_limit, output, seed_file, calls, origin, adjusts, scaler, queue, visited_urls, dpc, url,
                    failed_urls, task, open_pages, sem, clock, mainpc, puts, fetches, bad, retried, held >>

\* The URL that the body of "for task in done" adds to failed_urls.
FailedUrlOf(u, s) == url[u]

\* A loop body that adjusts twice for one task.
AdjustArgs_twice(r) == << r.exc = "none" /\ r.success, r.exc = "none" /\ r.success >>

\* A loop body that lets a task's exception pass without an adjust call.
AdjustArgs_skipexc(r) == IF r.exc = "none" THEN << r.success >> ELSE << >>

\* The adjust_concurrency calls the body of "for task in done" makes for a
\* task that ended as r, as the sequence of their arguments: one call,
\* adjust_concurrency(success) after task.result() returned (line 59), or
\* adjust_concurrency(False) in either except clause (lines 66, 70).
AdjustArgs(r) == << r.exc = "none" /\ r.success >>

\* The scaler after adjust_concurrency was called with each of args in turn.
Adjusted(sc, ml, args) ==
    LET F[i \in 0..Len(args)] == IF i = 0 THEN sc ELSE adjust_concurrency(F[i-1], ml, args[i])
    IN F[Len(args)]

\* for task in done: one iteration, lines 57-71.
Collect(u, s) ==
    /\ lpc[u] = "collect"
    /\ s \in done[u]
    /\ LET r == task[u][s]
           ok == r.exc = "none" /\ r.success
           more == IF r.exc = "none" THEN r.new_urls ELSE <<>>
       IN /\ scaler' = [scaler EXCEPT ![u] = Adjusted(scaler[u], max_limit, AdjustArgs(r))]
          /\ adjusts' = [adjusts EXCEPT ![u] = adjusts[u] + Len(AdjustArgs(r))]
          /\ queue' = [queue EXCEPT ![u] = add_urls(queue[u], more)]
          /\ puts' = [puts EXCEPT ![u] = CountPuts(puts[u], more)]
          /\ failed_urls' = [failed_urls EXCEPT ![u] =
                                IF ok THEN failed_urls[u] ELSE failed_urls[u] \cup {FailedUrlOf(u, s)}]
          /\ bad' = [bad EXCEPT ![u][Pass(u)] = IF ok THEN bad[u][Pass(u)] ELSE bad[u][Pass(u)] \cup {r.url}]
    /\ done' = [done EXCEPT ![u] = done[u] \ {s}]
    /\ task' = [task EXCEPT ![u][s] = NoTask]
    /\ UNCHANGED << start_urls, pool, max_limit, domain_limit, output, seed_file, calls, origin, visited_urls, dpc, lpc, tasks, url,
                    open_pages, sem, clock, mainpc, fetches, retried, held >>

\* The batch is handled: back to the test of the outer while.
CollectEnd(u) ==
    /\ lpc[u] = "collect"
    /\ done[u] = {}
    /\ lpc' = [lpc EXCEPT ![u] = "loop"]
    /\ UNCHANGED << start_urls, pool, max_limit, domain_limit, output, seed_file, calls, origin, adjusts, scaler, queue, visited_urls, dpc, tasks, done, url,
                    failed_urls, task, open_pages, sem, clock, mainpc, puts, fetches, bad, retried, held >>

\* process_tasks returns failed_urls to process_domain (lines 95-100): after
\* the first pass the failed URLs are put back and process_tasks runs again;
\* otherwise the "async with" block ends and the slot is released.
ProcessTasksReturn(u) ==
    /\ lpc[u] = "loop"
    /\ queue[u] = <<>> /\ tasks[u] = {}
    /\ IF dpc[u] = "pass1" /\ failed_urls[u] # {}
       THEN \E ord \in Orders(failed_urls[u]) :
            /\ queue' = [queue EXCEPT ![u] = add_urls(queue[u], ord)]
            /\ puts' = [puts EXCEPT ![u] = CountPuts([x \in AllUrls |-> 0], ord)]
            /\ dpc' = [dpc EXCEPT ![u] = "pass2"]
            /\ UNCHANGED << lpc, sem >>
       ELSE /\ dpc' = [dpc EXCEPT ![u] = "done"]
            /\ lpc' = [lpc EXCEPT ![u] = "idle"]
            /\ sem' = Release(sem)
            /\ UNCHANGED << queue, puts >>
    /\ failed_urls' = [failed_urls EXCEPT ![u] = {}]
    /\ url' = [url EXCEPT ![u] = NoUrl]
    /\ UNCHANGED << start_urls, pool, max_limit, domain_limit, output, seed_file, calls, origin, adjusts, scaler, visited_urls, tasks, done,
                    task, open_pages, clock, mainpc, fetches, bad, retried, held >>

\* ------------------------------------------------ process_url (one task)
\* page = await browser.new_page() returns.
TaskStart(u, s) ==
    /\ ~Busy /\ mainpc = "gather"
    /\ task[u][s].st = "new"
    /\ task' = [task EXCEPT ![u][s].st = "fetching", ![u][s].opened = 1]
    /\ open_pages' = open_pages \cup {<<u, s>>}
    /\ UNCHANGED << start_urls, pool, max_limit, domain_limit, output, seed_file, calls, origin, adjusts, scaler, queue, visited_urls, dpc, lpc, tasks, done, url,
                    failed_urls, sem, clock, mainpc, puts, fetches, bad, retried, held >>

\* browser.new_page() raises: it is called before the try, so the task ends
\* with the exception and has no page.
NewPageFails(u, s) ==
    /\ ~Busy /\ mainpc = "gather"
    /\ task[u][s].st = "new"
    /\ task' = [task EXCEPT ![u][s].st = "done", ![u][s].exc = "error"]
    /\ UNCHANGED << start_urls, pool, max_limit, domain_limit, output, seed_file, calls, origin, adjusts, scaler, queue, visited_urls, dpc, lpc, tasks, done, url,
                    failed_urls, open_pages, sem, clock, mainpc, puts, fetches, bad, retried, held >>

\* The "finally" of process_url: page.close() is called on the task's page.
\* The close request leaves for the browser at the call; the task then awaits
\* the answer (st = "closing").
ClosePage(t) == [t EXCEPT !.st = "closing", !.closes = t.closes + 1]

\* fetch_dynamic_content returns (list(new_urls), True): the page loaded and
\* carried `links`.  process_url puts the new URLs into the queue and goes to
\* its finally.  Nothing suspends between the last await of the fetch and
\* page.close().
FetchOk(u, s, links) ==
    /\ ~Busy /\ mainpc = "gather"
    /\ task[u][s].st = "fetching"
    /\ LET new == NewUrls(task[u][s].url, links, visited_urls[u])
       IN \E ord \in Orders(new) :
          /\ visited_urls' = [visited_urls EXCEPT ![u] = visited_urls[u] \cup new]
          /\ queue' = [queue EXCEPT ![u] = add_urls(queue[u], ord)]
          /\ puts' = [puts EXCEPT ![u] = CountPuts(puts[u], ord)]
          /\ task' = [task EXCEPT ![u][s] =
                         ClosePage([task[u][s] EXCEPT !.new_urls = ord, !.success = TRUE])]
          /\ output' = [output EXCEPT ![u] = WriteRecord(output[u], task[u][s].url, ProductLinks(new))]
    /\ open_pages' = open_pages \ {<<u, s>>}
    /\ UNCHANGED << start_urls, pool, max_limit, domain_limit, seed_file, calls, origin, adjusts, scaler, dpc, lpc, tasks, done, url,
                    failed_urls, sem, clock, mainpc, fetches, bad, retried, held >>

\* fetch_dynamic_content returns ([], False): the page did not load in
\* MAX_RETRIES attempts, or an exception was caught inside the fetch.
FetchFail(u, s) ==
    /\ ~Busy /\ mainpc = "gather"
    /\ task[u][s].st = "fetching"
    /\ task' = [task EXCEPT ![u][s] = ClosePage(task[u][s])]
    /\ open_pages' = open_pages \ {<<u, s>>}
    /\ UNCHANGED << start_urls, pool, max_limit, domain_limit, output, seed_file, calls, origin, adjusts, scaler, queue, visited_urls, dpc, lpc, tasks, done, url,
                    failed_urls, sem, clock, mainpc, puts, fetches, bad, retried, held >>

\* A cancellation that skips the finally of process_url.
CancelledTask_nofinally(t) == [t EXCEPT !.st = "done", !.exc = "timeout"]

\* What wait_for's timeout (URL_TASK_TIMEOUT) does to a task: process_url is
\* cancelled where it is suspended.  Awaiting new_page: it ends at once.  Inside
\* the fetch: CancelledError passes the except clauses and the finally closes
\* the page.  Awaiting page.close(): it ends.  The task ends with TimeoutError.
CancelledTask(t) ==
    IF t.st = "fetching"
    THEN ClosePage([t EXCEPT !.exc = "timeout"])
    ELSE [t EXCEPT !.st = "done", !.exc = "timeout"]

TaskTimeout(u, s) ==
    /\ ~Busy /\ mainpc = "gather"
    /\ Live(u, s)
    /\ task[u][s].exc = "none"
    /\ task' = [task EXCEPT ![u][s] = CancelledTask(task[u][s])]
    /\ open_pages' = IF task'[u][s].closes > 0 THEN open_pages \ {<<u, s>>} ELSE open_pages
    /\ UNCHANGED << start_urls, pool, max_limit, domain_limit, output, seed_file, calls, origin, adjusts, scaler, queue, visited_urls, dpc, lpc, tasks, done, url,
                    failed_urls, sem, clock, mainpc, puts, fetches, bad, retried, held >>

\* await page.close() returns: process_url returns (or, cancelled, re-raises)
\* and the task is done.
CloseReturn(u, s) ==
    /\ ~Busy /\ mainpc = "gather"
    /\ task[u][s].st = "closing"
    /\ task' = [task EXCEPT ![u][s].st = "done"]
    /\ UNCHANGED << start_urls, pool, max_limit, domain_limit, output, seed_file, calls, origin, adjusts, scaler, queue, visited_urls, dpc, lpc, tasks, done, url,
                    failed_urls, open_pages, sem, clock, mainpc, puts, fetches, bad, retried, held >>

\* ------------------------------------------------- process_domain, main
\* Time passes.  All domain tasks were created together, so their wait_for
\* deadlines coincide: clock = DomainTimeoutTicks.  A free slot is taken by a
\* waiting domain without delay.
Tick ==
    /\ ~Busy /\ mainpc = "gather"
    /\ clock < DomainTimeoutTicks
    /\ \E u \in Units : ~Finished(u)
    /\ ~(SemFree(sem) /\ \E u \in Units : dpc[u] = "wait_sem")
    /\ clock' = clock + 1
    /\ held' = [u \in Units |-> IF Running(u) THEN held[u] + 1 ELSE held[u]]
    /\ UNCHANGED << start_urls, pool, max_limit, domain_limit, output, seed_file, calls, origin, adjusts, scaler, queue, visited_urls, dpc, lpc, tasks, done, url,
                    failed_urls, task, open_pages, sem, mainpc, puts, fetches, bad, retried >>

\* wait_for(process_domain(...), DOMAIN_SCRAPING_TIMEOUT * 3600) expires:
\* process_domain is cancelled where it is suspended, at the semaphore or in
\* asyncio.wait (then "async with" releases the slot).  asyncio.wait does not
\* cancel the tasks it waits for: they stay in the task table.
DomainTimeout(u) ==
    /\ ~Busy /\ mainpc = "gather"
    /\ clock = DomainTimeoutTicks
    /\ ~Finished(u)
    /\ sem' = IF Running(u) THEN Release(sem) ELSE sem
    /\ dpc' = [dpc EXCEPT ![u] = "timedout"]
    /\ lpc' = [lpc EXCEPT ![u] = "idle"]
    /\ tasks' = [tasks EXCEPT ![u] = {}]
    /\ failed_urls' = [failed_urls EXCEPT ![u] = {}]
    /\ url' = [url EXCEPT ![u] = NoUrl]
    /\ UNCHANGED << start_urls, pool, max_limit, domain_limit, output, seed_file, calls, origin, adjusts, scaler, queue, visited_urls, done,
                    task, open_pages, clock, mainpc, puts, fetches, bad, retried, held >>

\* asyncio.gather returns when every domain task has ended; main reports,
\* closes the browser (and with it every page) and asyncio.run cancels the
\* tasks that are left.
MainExit ==
    /\ ~Busy /\ mainpc = "gather"
    /\ \A u \in Units : Finished(u)
    /\ mainpc' = "exited"
    /\ open_pages' = {}
    /\ task' = [u \in Units |-> [s \in Slots |-> NoTask]]
    /\ UNCHANGED << start_urls, pool, max_limit, domain_limit, output, seed_file, calls, origin, adjusts, scaler, queue, visited_urls, dpc, lpc, tasks, done, url,
                    failed_urls, sem, clock, puts, fetches, bad, retried, held >>

\* main, lines 110-127: load_start_urls, sys.exit(1) when the list is empty,
\* else the browser is launched and one process_domain task is created per
\* start URL.
MainStart ==
    /\ mainpc = "start"
    /\ LET seeds == load_start_urls(seed_file)
           new == NewUnits(seeds, max_limit, FALSE, 0)
       IN IF seeds = <<>>
          THEN /\ mainpc' = "exit1"
               /\ UNCHANGED << start_urls, scaler, queue, visited_urls, dpc, lpc, tasks, done, url,
                               failed_urls, task, puts, fetches, bad, retried, held, adjusts, output >>
          ELSE /\ mainpc' = "gather"
               /\ start_urls' = seeds
               /\ scaler' = new.scaler
               /\ queue' = new.queue
               /\ visited_urls' = new.visited_urls
               /\ dpc' = new.dpc
               /\ lpc' = new.lpc
               /\ tasks' = new.tasks
               /\ done' = new.tasks
               /\ url' = new.url
               /\ failed_urls' = new.tasks
               /\ task' = new.task
               /\ puts' = new.puts
               /\ fetches' = new.fetches
               /\ bad' = new.bad
               /\ retried' = new.tasks
               /\ held' = new.count
               /\ adjusts' = new.count
               /\ output' = new.output
    /\ UNCHANGED << pool, max_limit, domain_limit, seed_file, calls, origin, open_pages, sem, clock >>

Next ==
    \/ \E u \in Units : Acquire(u)
    \/ \E u \in Units : LoopEnter(u)
    \/ \E u \in Units : Dispatch(u)
    \/ \E u \in Units : DispatchEnd(u)
    \/ \E u \in Units : Wake(u)
    \/ \E u \in Units, s \in Slots : Collect(u, s)
    \/ \E u \in Units : CollectEnd(u)
    \/ \E u \in Units : ProcessTasksReturn(u)
    \/ \E u \in Units, s \in Slots : TaskStart(u, s)
    \/ \E u \in Units, s \in Slots : NewPageFails(u, s)
    \/ \E u \in Units, s \in Slots, links \in SUBSET pool : FetchOk(u, s, links)
    \/ \E u \in Units, s \in Slots : FetchFail(u, s)
    \/ \E u \in Units, s \in Slots : TaskTimeout(u, s)
    \/ \E u \in Units, s \in Slots : CloseReturn(u, s)
    \/ Tick
    \/ \E u \in Units : DomainTimeout(u)
    \/ MainExit

\* One domain crawled, every scaler configuration.
Spec == Init /\ [][Next]_vars

\* More domains than admission slots.
SpecSched == InitSched /\ [][Next]_vars

\* Two domains for one slot; the event loop never stops while a step is ready:
\* a fetch returns or its timeout fires, a finished task is collected, a
\* waiter gets the freed slot.
SpecLive == InitLive /\ [][Next]_vars /\ WF_vars(Next)

\* main from its start, for every seed file.
NextSeeds == MainStart \/ Next

SpecSeeds == InitSeeds /\ [][NextSeeds]_vars

\* One domain with product pages.
SpecOut == InitOut /\ [][Next]_vars

\* Two seeds of the same domain.
SpecDup == InitDup /\ [][Next]_vars

\* ------------------------------------------------- LoadScaler on its own
\* The last ADAPTIVE_THRESHOLD calls of a call history.
LastCalls(h) == IF Len(h) > ADAPTIVE_THRESHOLD THEN Tail(h) ELSE h

\* load_scaler.adjust_concurrency(success) on unit 1's scaler.
AdjustCall(success) ==
    /\ success => scaler[1].fast_completions < MaxStreak
    /\ scaler' = [scaler EXCEPT ![1] = adjust_concurrency(scaler[1], max_limit, success)]
    /\ calls' = LastCalls(Append(calls, [success |-> success, concurrency |-> scaler[1].concurrency,
                                         fast_completions |-> scaler[1].fast_completions]))
    /\ UNCHANGED << start_urls, pool, max_limit, domain_limit, output, seed_file, origin, adjusts, queue, visited_urls, dpc, lpc, tasks, done, url,
                    failed_urls, task, open_pages, sem, clock, mainpc, puts, fetches, bad, retried, held >>

\* fetch_dynamic_content on a page the queue gave, from the extracted links to
\* queue.add_urls(new_urls) in process_url.
FilterCall(page, links) ==
    /\ page \in {start_urls[1]} \cup visited_urls[1]
    /\ LET new == NewUrls(page, links, visited_urls[1])
       IN \E ord \in Orders(new) :
          /\ visited_urls' = [visited_urls EXCEPT ![1] = visited_urls[1] \cup new]
          /\ queue' = [queue EXCEPT ![1] = add_urls(queue[1], ord)]
          /\ origin' = origin \cup {<<page, x>> : x \in new}
          /\ output' = [output EXCEPT ![1] = WriteRecord(output[1], page, ProductLinks(new))]
    /\ UNCHANGED << start_urls, pool, max_limit, domain_limit, seed_file, calls, adjusts, scaler, dpc, lpc, tasks, done, url,
                    failed_urls, task, open_pages, sem, clock, mainpc, puts, fetches, bad, retried, held >>

NextFilter == \E page \in AllUrls \cup {StripFragment(l) : l \in FilterPool}, links \in SUBSET pool :
                  FilterCall(page, links)

SpecFilter == InitFilter /\ [][NextFilter]_vars

NextScaler == \E success \in BOOLEAN : AdjustCall(success)

SpecScaler == InitScaler /\ [][NextScaler]_vars

\* ================================================================ claims
InFlight(u) == {s \in tasks[u] : Live(u, s)}

\* C1: within one pass no URL is put into a domain's queue more than once.
C1_NoUrlPutTwice ==
    \A u \in Units : \A x \in AllUrls : puts[u][x] <= 1

\* C2: every URL in failed_urls is the URL of a task that ended in failure in
\* this pass.
C2_FailedUrlIsTheTasksUrl ==
    \A u \in Units : failed_urls[u] \subseteq bad[u][Pass(u)]

\* C3: every URL whose fetch failed in the initial pass is in the FailedSet of
\* that pass, and when the domain completes it was fetched again in the retry
\* pass.
C3_FailedUrlIsRetried ==
    \A u \in Units :
        /\ dpc[u] = "pass1" => bad[u][1] \subseteq failed_urls[u]
        /\ dpc[u] = "done" => bad[u][1] \subseteq retried[u]

\* C4: over a domain crawl no URL is dispatched to the page fetcher a third time.
C4_NoThirdFetch ==
    \A u \in Units : \A x \in AllUrls : fetches[u][x] <= 2

\* C5: MIN_CONCURRENCY <= concurrency <= max_limit, from construction and
\* after any sequence of adjust_concurrency calls.
C5_ConcurrencyInRange ==
    \A u \in Units :
        MIN_CONCURRENCY <= scaler[u].concurrency /\ scaler[u].concurrency <= max_limit

\* C5 witness: successes counted at the upper limit.
C5_Witness ==
    /\ max_limit > MIN_CONCURRENCY
    /\ scaler[1].concurrency = max_limit
    /\ scaler[1].fast_completions >= ADAPTIVE_THRESHOLD

\* C6 as stated: the tasks in flight never exceed the current concurrency.
C6_InFlightWithinCurrent ==
    \A u \in Units : Cardinality(InFlight(u)) <= scaler[u].concurrency

\* C6 amended: a task is dispatched only while the tasks in the loop's set are
\* fewer than the current concurrency, so the set is within the current value
\* right after every dispatch, and it is within max_limit always.
C6_DispatchBelowCurrent ==
    /\ [](\A u \in Units : Cardinality(tasks[u]) <= max_limit)
    /\ [][\A u \in Units :
            Cardinality(tasks'[u]) > Cardinality(tasks[u]) =>
                /\ Cardinality(tasks[u]) < scaler[u].concurrency
                /\ Cardinality(tasks'[u]) <= scaler'[u].concurrency]_vars

\* C6 witness: a failure has lowered the value below the tasks still in flight.
C6_Witness ==
    \E u \in Units : Cardinality(InFlight(u)) > scaler[u].concurrency

\* C7: a domain is reported as timed out only for time of its own crawl, never
\* for the time it waited while other domains held the slots.
C7_TimeoutOnlyForOwnTime ==
    \A u \in Units : dpc[u] = "timedout" => held[u] >= DomainTimeoutTicks

\* C8: at most DOMAIN_CONCURRENCY_LIMIT domains hold an admission slot.
C8_AdmissionLimit ==
    Cardinality({u \in Units : Running(u)}) <= domain_limit

\* C8 witness: every slot is held, a domain waits and an earlier one has ended.
C8_Witness ==
    /\ Cardinality({u \in Units : Running(u)}) = domain_limit
    /\ \E u \in Units : dpc[u] = "wait_sem"
    /\ \E u \in Units : Finished(u)

\* C9: once a domain has timed out none of its tasks is still fetching or
\* holds a page.
C9_NoTaskAfterDomainTimeout ==
    \A u \in Units : dpc[u] = "timedout" =>
        \A s \in Slots : ~Live(u, s) /\ <<u, s>> \notin open_pages

\* C10: a task's page is closed exactly once, before the task is done, on every
\* way the task ends; the open pages belong to tasks that have not ended.
C10_PageClosedOnce ==
    /\ \A u \in Units : \A s \in Slots :
        /\ task[u][s].closes <= task[u][s].opened
        /\ task[u][s].st \in {"closing", "done"} => task[u][s].closes = task[u][s].opened
        /\ task[u][s].st \in {"closing", "done"} => <<u, s>> \notin open_pages
    /\ Cardinality(open_pages) <= Cardinality({p \in Units \X Slots : Live(p[1], p[2])})

\* C10 witness: a task cancelled by the per-task timeout inside the fetch has
\* ended with its page closed.
C10_Witness ==
    \E u \in Units : \E s \in Slots :
        /\ task[u][s].st = "done" /\ task[u][s].exc = "timeout"
        /\ task[u][s].opened = 1 /\ task[u][s].closes = 1 /\ ~task[u][s].success

\* The last recorded adjust_concurrency call (LoadScaler alone).
LastCall == calls[Len(calls)]

\* C11: adjust_concurrency(True) increments the success streak; when the
\* incremented streak is at least ADAPTIVE_THRESHOLD and concurrency is below
\* max_limit, concurrency becomes min(concurrency + ADAPTIVE_STEP, max_limit)
\* and the streak is reset to 0, otherwise concurrency is unchanged.  Three
\* consecutive successes from streak 0 and concurrency < max_limit raise
\* concurrency at the third call and at neither of the first two.
C11_SuccessRaisesAtThreshold ==
    /\ (calls # <<>> /\ LastCall.success) =>
          LET c == LastCall.concurrency
              fc == LastCall.fast_completions + 1
          IN IF fc >= ADAPTIVE_THRESHOLD /\ c < max_limit
             THEN /\ scaler[1].concurrency = Min(c + ADAPTIVE_STEP, max_limit)
                  /\ scaler[1].fast_completions = 0
             ELSE /\ scaler[1].concurrency = c
                  /\ scaler[1].fast_completions = fc
    /\ ( /\ Len(calls) = ADAPTIVE_THRESHOLD
         /\ \A i \in 1..Len(calls) : calls[i].success
         /\ calls[1].fast_completions = 0
         /\ calls[1].concurrency < max_limit ) =>
          /\ \A i \in 1..Len(calls) : calls[i].concurrency = calls[1].concurrency
          /\ scaler[1].concurrency > calls[1].concurrency

\* Three successes from streak 0 below max_limit were made, and the third
\* raised concurrency by less than ADAPTIVE_STEP because of the cap.
C11_Witness ==
    /\ Len(calls) = ADAPTIVE_THRESHOLD
    /\ \A i \in 1..Len(calls) : calls[i].success
    /\ calls[1].fast_completions = 0
    /\ calls[1].concurrency < max_limit
    /\ scaler[1].concurrency = max_limit
    /\ scaler[1].concurrency < calls[1].concurrency + ADAPTIVE_STEP

\* C12: adjust_concurrency(False) sets the streak to 0 and concurrency to
\* max(concurrency - ADAPTIVE_STEP, MIN_CONCURRENCY), from any state: two
\* consecutive failures from concurrency 5 give 5 -> 3 -> 1, and a failure at
\* MIN_CONCURRENCY leaves concurrency unchanged.
C12_FailureLowersToFloor ==
    /\ (calls # <<>> /\ ~LastCall.success) =>
          /\ scaler[1].fast_completions = 0
          /\ scaler[1].concurrency = Max(LastCall.concurrency - ADAPTIVE_STEP, MIN_CONCURRENCY)
          /\ LastCall.concurrency = MIN_CONCURRENCY => scaler[1].concurrency = MIN_CONCURRENCY
    /\ ( /\ Len(calls) >= 2
         /\ ~LastCall.success
         /\ ~calls[Len(calls) - 1].success
         /\ calls[Len(calls) - 1].concurrency = 5 ) =>
          /\ LastCall.concurrency = 3
          /\ scaler[1].concurrency = 1

\* Two consecutive failures from concurrency 5 were made, the first one
\* breaking a streak of successes.
C12_Witness ==
    /\ Len(calls) >= 2
    /\ ~LastCall.success
    /\ ~calls[Len(calls) - 1].success
    /\ calls[Len(calls) - 1].concurrency = 5
    /\ calls[Len(calls) - 1].fast_completions > 0
    /\ scaler[1].concurrency = MIN_CONCURRENCY

\* C13: a domain has at most one crawl unit per run: two seed URLs of the same
\* domain are never crawled by two separate units, and no URL is fetched by
\* two units.
C13_OneUnitPerDomain ==
    \A u \in Units, v \in Units :
        u # v =>
          /\ NetlocDomain(start_urls[u].host) = NetlocDomain(start_urls[v].host) =>
                ~( (\E x \in AllUrls : fetches[u][x] > 0) /\ (\E y \in AllUrls : fetches[v][y] > 0) )
          /\ \A x \in AllUrls : ~(fetches[u][x] > 0 /\ fetches[v][x] > 0)

\* C14: every URL that entered the queue as a discovered link has the domain
\* of the page it was extracted from, the domain being the host without a
\* leading "www."; a link to another domain is never enqueued.
C14_SameDomainOnly ==
    LET Domain(h) == IF Len(h) > 1 /\ h[1] = "www" THEN Tail(h) ELSE h
    IN \A pr \in origin : Domain(pr[1].host) = Domain(pr[2].host)

\* C15: every seed domain is eventually admitted or timed out; every admitted
\* unit eventually ends, by returning from process_tasks (after at most one
\* retry pass, with an empty queue and no task in flight) or by its timeout;
\* whenever no unit is running every admission slot is free again; and main
\* eventually finishes.
C15_EveryUnitEnds ==
    /\ \A u \in 1..Len(LiveSeeds) :
          /\ <>(dpc[u] # "wait_sem")
          /\ [](Running(u) => <>(dpc[u] \in {"done", "timedout"}))
          /\ [](dpc[u] = "done" => queue[u] = <<>> /\ tasks[u] = {})
    /\ []((\A u \in Units : ~Running(u)) => sem = domain_limit)
    /\ <>[](mainpc = "exited")

\* main has finished after a unit that waited for a slot was admitted, made
\* its retry pass and returned.
C15_Witness ==
    /\ mainpc = "exited"
    /\ \E u \in Units : u > domain_limit /\ dpc[u] = "done" /\ retried[u] # {}

\* C16: when the seed file is missing or has no non-blank line, main exits
\* with status 1 before any domain unit is created: it never gets to the
\* browser launch, no page is opened and no fetch is made (so no output file
\* is written).
C16_NoSeedsExitsAtOnce ==
    (~seed_file.exists \/ \A i \in 1..Len(seed_file.lines) : \A k \in 1..Len(seed_file.lines[i]) : seed_file.lines[i][k] = Ws) =>
        /\ mainpc \in {"start", "exit1"}
        /\ Units = {}
        /\ open_pages = {}
        /\ DOMAIN(queue) = {} /\ DOMAIN(fetches) = {}

\* main has exited with status 1 on a file of blank lines.
C16_Witness ==
    /\ mainpc = "exit1"
    /\ seed_file.exists /\ Len(seed_file.lines) > 1

\* C17: the queue is first in, first out under every interleaving of add_urls
\* and get: a get takes the URL at the head and leaves the rest in order, and
\* an add_urls call appends its batch behind everything already queued, in the
\* order of the list it was given (the new_urls list of a task, or the list
\* made of failed_urls for the retry).
C17_FifoOrder ==
    [][ \A u \in Units :
          queue'[u] # queue[u] =>
            \/ /\ queue[u] # <<>>
               /\ queue'[u] = Tail(queue[u])
               /\ url'[u] = Head(queue[u])
            \/ \E s \in Slots : \E batch \in {task[u][s].new_urls, task'[u][s].new_urls} :
                  /\ batch # <<>>
                  /\ queue'[u] = queue[u] \o batch
            \/ /\ Len(queue'[u]) = Len(queue[u]) + Cardinality(failed_urls[u])
               /\ SubSeq(queue'[u], 1, Len(queue[u])) = queue[u]
               /\ {queue'[u][i] : i \in (Len(queue[u]) + 1)..Len(queue'[u])} = failed_urls[u]
      ]_vars

\* A batch was put behind a URL still queued while a task is in flight.
C17_Witness ==
    \E u \in Units :
        /\ Len(queue[u]) >= 2
        /\ queue[u][1] # queue[u][2]
        /\ tasks[u] # {}
        /\ \E x \in AllUrls : fetches[u][x] > 0 /\ puts[u][x] > 1

\* The tasks a unit's dispatch loop has created (asyncio.create_task, one per get).
Dispatched(u) ==
    LET F[S \in SUBSET AllUrls] ==
            IF S = {} THEN 0
            ELSE LET x == CHOOSE x \in S : TRUE IN fetches[u][x] + F[S \ {x}]
    IN F[AllUrls]

\* C18 as stated: no task completion is left without an adjust call: a
\* completed task whose adjust call has not been made yet is in the hands of
\* the owning dispatch loop (its task set, or the batch it is handling).
C18_NoCompletionWithoutAdjust ==
    \A u \in Units : \A s \in Slots :
        task[u][s].st = "done" => s \in tasks[u] \cup done[u]

\* C18, amended: as long as the domain is not timed out, every completed task
\* is in the hands of the owning dispatch loop until its adjust call; the loop
\* has made exactly one adjust call per task it created and that is no longer
\* in its hands; and adjust_concurrency is only called from the "for task in
\* done" body of the owning loop, once per task taken from the batch, with
\* the outcome task.result() gave (success only for a returned True).
C18_OneAdjustPerCollectedTask ==
    /\ [](\A u \in Units : Running(u) =>
            \A s \in Slots : task[u][s].st = "done" => s \in tasks[u] \cup done[u])
    /\ [](\A u \in Units : (Running(u) \/ dpc[u] = "done") =>
            adjusts[u] + Cardinality(tasks[u]) + Cardinality(done[u]) = Dispatched(u))
    /\ [][ \A u \in Units :
             (adjusts'[u] # adjusts[u] \/ scaler'[u] # scaler[u]) =>
               /\ lpc[u] = "collect"
               /\ \E s \in done[u] :
                     /\ task[u][s].st = "done"
                     /\ done'[u] = done[u] \ {s}
                     /\ adjusts'[u] = adjusts[u] + 1
                     /\ scaler'[u] = adjust_concurrency(scaler[u], max_limit,
                                                        task[u][s].exc = "none" /\ task[u][s].success)
       ]_vars

\* A unit has returned after adjust calls for a timed-out task and others.
C18_Witness ==
    \E u \in Units :
        /\ dpc[u] = "done"
        /\ adjusts[u] >= 3
        /\ bad[u][1] # {}

\* C19: a task that ended with a timeout or another exception never aborts
\* process_tasks: its iteration of "for task in done" calls
\* adjust_concurrency(False) and adds one URL to failed_urls, the loop stays in
\* the batch with the other completed tasks still to handle, and
\* process_tasks only ever returns normally, with the queue empty and no task
\* in flight.
C19_FailureDoesNotAbortLoop ==
    /\ [](\A u \in Units : dpc[u] # "error")
    /\ [](\A u \in Units : dpc[u] = "done" => queue[u] = <<>> /\ tasks[u] = {} /\ done[u] = {})
    /\ [][ \A u \in Units : \A s \in Slots :
             (s \in done[u] /\ s \notin done'[u] /\ task[u][s].exc # "none") =>
               /\ scaler'[u] = adjust_concurrency(scaler[u], max_limit, FALSE)
               /\ \E x \in AllUrls : failed_urls'[u] = failed_urls[u] \cup {x}
               /\ done'[u] = done[u] \ {s}
               /\ lpc'[u] = "collect"
               /\ dpc'[u] = dpc[u]
       ]_vars

\* A batch with a timed-out task and a task that raised is being handled by
\* a loop whose concurrency a failure can still lower.
C19_Witness ==
    \E u \in Units :
        /\ lpc[u] = "collect"
        /\ scaler[u].concurrency > MIN_CONCURRENCY
        /\ \E s \in done[u], t \in done[u] :
              task[u][s].exc = "timeout" /\ task[u][t].exc = "error"

\* C20: whenever the dispatch loop is at asyncio.wait at least one task is in
\* flight (it never waits on an empty task set, which would raise), every
\* queue.get is made on a non-empty queue, and concurrency is at least
\* MIN_CONCURRENCY at all times.
C20_WaitHasTaskGetHasUrl ==
    /\ [](\A u \in Units : lpc[u] = "wait" => tasks[u] # {})
    /\ [](\A u \in Units : dpc[u] # "error" /\ scaler[u].concurrency >= MIN_CONCURRENCY)
    /\ [][ \A u \in Units :
             (tasks'[u] \ tasks[u] # {}) => queue[u] # <<>> /\ url'[u] = Head(queue[u])
       ]_vars

\* The loop waits with one task in flight at the lowest concurrency while
\* URLs are still queued.
C20_Witness ==
    \E u \in Units :
        /\ lpc[u] = "wait"
        /\ scaler[u].concurrency = MIN_CONCURRENCY
        /\ Cardinality(tasks[u]) = 1
        /\ queue[u] # <<>>

\* C21: within one domain crawl no product URL is in two output records;
\* every record holds at least one link, all of them product links; a record
\* is only ever appended, by a running fetch of its parent page that found
\* these links not seen before; and the records already written stay as they
\* are in every step, a later fetch of the same page, the retry pass and the
\* domain timeout included.
C21_RecordsOnceAndKept ==
    /\ [](\A u \in Units : \A i \in 1..Len(output[u]) :
            /\ output[u][i].product_links # {}
            /\ output[u][i].count = Cardinality(output[u][i].product_links)
            /\ \A l \in output[u][i].product_links : IsProduct(l)
            /\ \A j \in 1..Len(output[u]) :
                  i # j => output[u][i].product_links \cap output[u][j].product_links = {})
    /\ [][ \A u \in Units :
             /\ Len(output'[u]) >= Len(output[u])
             /\ SubSeq(output'[u], 1, Len(output[u])) = output[u]
             /\ output'[u] # output[u] =>
                   /\ Len(output'[u]) = Len(output[u]) + 1
                   /\ output'[u][Len(output'[u])].product_links \cap visited_urls[u] = {}
                   /\ \E s \in Slots :
                         /\ task[u][s].st = "fetching"
                         /\ output'[u][Len(output'[u])].parent_link = task[u][s].url
       ]_vars

\* Two records were written, a page of the crawl was fetched twice, and the
\* unit went through its retry pass into the domain timeout.
C21_Witness ==
    \E u \in Units :
        /\ Len(output[u]) = 2
        /\ \E x \in AllUrls : fetches[u][x] >= 2 /\ output[u][1].parent_link = x
        /\ retried[u] # {}
        /\ dpc[u] = "timedout"
====
